---------------------------- MODULE Spec2Model ----------------------------
(***************************************************************************)
(* Model of the Huawei OLT session drivers:                                *)
(*   - the three execute_command polling loops (OLTPortsChecker,           *)
(*     ONTStatusChecker, ONTListChecker) against a nondeterministic device;*)
(*   - the HuaweiOLT manager session (connect, send_command,               *)
(*     configure_interface, reset_ont, disconnect).                        *)
(*                                                                         *)
(* Text is a sequence of tokens.  A Python substring test `p in s` is the  *)
(* contiguous-subsequence test In(p, s); the pagination marker             *)
(* "---- More" is the two-token text <<"---- ", "More">>, so that it can   *)
(* arrive whole in one chunk or split over two.  The device's text is     *)
(* ASCII, on which decode('utf-8') is the identity, and a chunk is shorter *)
(* than the 4096 bytes recv asks for, so recv returns all that arrived;    *)
(* chunk boundaries come from when the device emits and the driver reads.  *)
(***************************************************************************)
EXTENDS Integers, Sequences, FiniteSets, TLC

VARIABLES
    variant,        \* which class runs: "ports", "status", "list", "manager"
    pc,             \* position inside execute_command
    rx,             \* bytes that arrived on the channel and are not yet read
    chunk,          \* the local `chunk` of execute_command (last recv result)
    output,         \* the local `output` of execute_command
    keys,           \* continuation keystrokes (' ') written in this cycle
    delivered,      \* every chunk recv handed over since the command was sent
    emitted,        \* pieces the device has emitted (bounded by MaxEmit)
    flood,          \* NoFlood, or the text an endless device repeats forever
    clock,          \* list variant: half-seconds slept since start_time
    channel,        \* HuaweiOLT.channel: None, "open" or "closed"
    client,         \* HuaweiOLT.client: None, "own" (the client that carries
                    \* self.channel) or "other" (a newer client that does not)
    wlog,           \* commands written to the channel self.channel refers to
    current_frame,  \* HuaweiOLT.current_frame (NoId or a frame id)
    current_slot,   \* HuaweiOLT.current_slot (NoId or a slot id)
    current_interface, \* HuaweiOLT.current_interface (NoInterface or <<"GPON", f, s>>)
    calls,          \* number of calls made on the HuaweiOLT object
    hist,           \* the records of the last two calls, older first
    answers,        \* what the device answered to the mode-entry commands
                    \* of the last connect, in order
    ont_list,       \* reset_multiple_onts: its argument
    idx,            \* reset_multiple_onts: items whose loop body has finished
    results,        \* reset_multiple_onts: the dict `results`
    bpc,            \* reset_multiple_onts: "idle" or "loop"
    cycle,          \* the record of the last reset command cycle
    bwrote,         \* the running batch wrote a command to the channel
    berr,           \* a channel operation raised in the running batch
    pauses,         \* inter-item pauses (time.sleep(1)) of the running batch
    transport,      \* the SSH connection self.client holds: "none", "open"
                    \* or "closed"
    step,           \* check_single_ont_status: commands completed
    target,         \* check_single_ont_status: <<frame, slot, port, ont>>
    info_output,    \* check_single_ont_status: the local `info_output`
    optical_output, \* check_single_ont_status: the local `optical_output`
    version_output, \* check_single_ont_status: the local `version_output`
    rejected,       \* 0, or the length of wlog when the device rejected
                    \* the interface selection of this check
    status_info,    \* NoResult, or what check_single_ont_status returned
    summary,        \* check_port_onts: the local `output`, a sequence of lines
    onts,           \* the list check_port_onts returned (<<>> before)
    failed,         \* check_port_onts: an exception was raised and caught
    printed,        \* what the run has printed: "none", "error", "[]", "list"
    date_str,       \* parse_date: its argument
    date_out,       \* parse_date: NoDate, or what it returned
    record,         \* clean_dict: its argument d
    cleaned,        \* NoValue, or clean_dict(d)
    recleaned,      \* NoValue, or clean_dict(clean_dict(d))
    sessions,       \* two HuaweiOLT objects of one process: their attributes
    logger,         \* the process-wide logging.getLogger('HuaweiOLT')
    actor,          \* the object whose constructor or method ran last
    before,         \* sessions and logger before that call
    run             \* position of main(); written by the main steps only

execVars == <<pc, rx, chunk, output, keys, delivered, emitted, flood, clock>>
ctx == <<current_frame, current_slot, current_interface>>
batchVars == <<ont_list, idx, results, bpc, cycle, bwrote, berr, pauses>>
listVars == <<summary, onts, failed, printed>>
normVars == <<date_str, date_out, record, cleaned, recleaned>>
twoVars == <<sessions, logger, actor, before>>
statusVars == <<step, target, info_output, optical_output, version_output,
                rejected, status_info, listVars, normVars, twoVars>>
mgrVars == <<channel, client, wlog, ctx, calls, hist, answers, batchVars, transport,
             statusVars, run>>
vars == <<variant, execVars, mgrVars>>

(***************************************************************************)
(* Bounds of the model.                                                    *)
(***************************************************************************)
\* pieces of text the device may emit in one command cycle
MaxEmit == 3
\* API calls made on one HuaweiOLT object
MaxCalls == 5
\* the output buffer keeps this many tokens (never reached under Spec)
MaxOut == MaxEmit * 5
\* the keystroke counter saturates here (never reached under Spec)
KeysCap == MaxEmit + 1
\* the cap on keystrokes a capped driver would be configured with
PaginationCap == 2

(***************************************************************************)
(* Program constants, in half-seconds (the list loop sleeps 0.5 s).        *)
(***************************************************************************)
\* timeout = 30
ListTimeout == 60
\* time.sleep(0.5)
PollSleep == 1
\* time.sleep(2) after the continuation keystroke
MoreSleep == 4
\* time.sleep(2) before the drain loop
DrainSleep == 4

\* Python's None, for a name (channel, client)
None == "None"
\* self.current_frame = None / self.current_slot = None: no frame or slot id
NoId == -1
\* self.current_interface = None
NoInterface == <<>>
\* the device is not an endless one
NoFlood == <<>>
\* no reset command cycle has run
NoCycle == <<>>
\* check_single_ont_status has not been called
NoTarget == <<>>
\* check_single_ont_status has not returned
NoResult == [returned |-> FALSE]

(***************************************************************************)
(* Text.                                                                   *)
(***************************************************************************)
\* Python `p in s` on strings
In(p, s) ==
    \E i \in 0..(Len(s) - Len(p)) : SubSeq(s, i + 1, i + Len(p)) = p

\* number of occurrences of p in s
Count(p, s) ==
    Cardinality({i \in 0..(Len(s) - Len(p)) : SubSeq(s, i + 1, i + Len(p)) = p})

\* the last MaxOut tokens of s
Keep(s) ==
    IF Len(s) > MaxOut THEN SubSeq(s, Len(s) - MaxOut + 1, Len(s)) ELSE s

\* "---- More"
Marker == <<"---- ", "More">>

\* ['(config)#', '>', '#']
PortsPrompts == {<<"(config", ")", "#">>, <<">">>, <<"#">>}

\* ['(config)#', '(config-if-gpon-', '>', '#']
StatusPrompts == {<<"(config", ")", "#">>, <<"(config", "-if-gpon-">>, <<">">>, <<"#">>}

\* ")#" in chunk or ")" in chunk
ListPrompts == {<<")", "#">>, <<")">>}

\* what the device can emit in one piece
Pieces ==
    { <<"a">>, <<"---- ">>, <<"More">>, <<">">>, <<"#">>,
      <<"(config", ")", "#">>,
      <<"(config", "-if-gpon-", "0/1", ")", "#">> }

SawMarker(c) == In(Marker, c)

\* self.channel.send(' '), counted
Press(k) == IF k < KeysCap THEN k + 1 ELSE k

SawPrompt(prompts, c) == \E p \in prompts : In(p, c)

Returned == {"ret_prompt", "ret_silence", "ret_timeout"}

\* the classes that create their SSHClient in __init__ and leave the
\* process from connect on failure: OLTPortsChecker, ONTStatusChecker,
\* ONTListChecker
Checkers == {"ports", "status", "list"}

(***************************************************************************)
(* The device and the channel.                                             *)
(***************************************************************************)
\* the device answers the command: it emits one more piece of text, which
\* arrives on the channel
DeviceEmit ==
    /\ variant \in {"ports", "status", "list"}
    /\ pc \notin Returned \cup {"start"}
    /\ emitted < MaxEmit
    /\ \E p \in Pieces : rx' = rx \o p
    /\ emitted' = emitted + 1
    /\ UNCHANGED <<variant, pc, chunk, output, keys, delivered, flood, clock, mgrVars>>

\* what an endless device repeats: data, pagination markers, or prompts
FloodPieces == {<<"a">>, Marker, <<"(config", ")", "#">>}

\* a device that always has data ready: whenever the channel is empty it
\* emits its text again (taken only under SpecLive); before the command is
\* sent only clear_buffer reads the channel
DeviceFlood ==
    /\ variant \in {"ports", "status", "list"}
    /\ pc \notin Returned
    /\ pc = "start" => variant = "list"
    /\ flood # NoFlood
    /\ rx = <<>>
    /\ rx' = flood
    /\ UNCHANGED <<variant, pc, chunk, output, keys, delivered, emitted, flood, clock, mgrVars>>

\* time passes while the list loop runs (taken only under SpecLive)
Tick ==
    /\ variant = "list"
    /\ pc \in {"loop", "drain"}
    /\ clock <= ListTimeout
    /\ clock' = clock + 1
    /\ UNCHANGED <<variant, pc, rx, chunk, output, keys, delivered, emitted, flood, mgrVars>>

\* time.sleep(n) in the list loop; the clock is only compared with the timeout
Sleep(n) ==
    IF clock + n > ListTimeout THEN ListTimeout + 1 ELSE clock + n

(***************************************************************************)
(* OLTPortsChecker.execute_command / ONTStatusChecker.execute_command      *)
(***************************************************************************)
\* self.channel.send(f"{command}\n"); time.sleep(2); output = ""
poll_send ==
    /\ variant \in {"ports", "status"}
    /\ pc = "start"
    /\ pc' = "loop"
    /\ output' = <<>>
    /\ delivered' = <<>>
    /\ UNCHANGED <<variant, rx, chunk, keys, emitted, flood, clock, mgrVars>>

\* the branch taken on a received chunk
poll_branch(prompts, c) ==
    IF SawMarker(c) THEN "more"
    ELSE IF SawPrompt(prompts, c) THEN "prompt"
    ELSE "again"

\* if self.channel.recv_ready(): chunk = recv; output += chunk; ...
poll_read(prompts) ==
    /\ pc = "loop"
    /\ rx # <<>>
    /\ chunk' = rx
    /\ rx' = <<>>
    /\ delivered' = Keep(delivered \o rx)
    /\ output' = Keep(output \o rx)
    /\ LET b == poll_branch(prompts, rx) IN
         /\ keys' = IF b = "more" THEN Press(keys) ELSE keys
         /\ pc' = IF b = "prompt" THEN "ret_prompt" ELSE "loop"
    /\ UNCHANGED <<variant, emitted, flood, clock, mgrVars>>

\* else: time.sleep(0.1)
poll_idle ==
    /\ variant \in {"ports", "status"}
    /\ pc = "loop"
    /\ rx = <<>>
    /\ pc' = "poll"
    /\ UNCHANGED <<variant, rx, chunk, output, keys, delivered, emitted, flood, clock, mgrVars>>

\* if not self.channel.recv_ready(): break
poll_recheck ==
    /\ variant \in {"ports", "status"}
    /\ pc = "poll"
    /\ pc' = IF rx = <<>> THEN "ret_silence" ELSE "loop"
    /\ UNCHANGED <<variant, rx, chunk, output, keys, delivered, emitted, flood, clock, mgrVars>>

ports_execute_command ==
    /\ variant = "ports"
    /\ poll_read(PortsPrompts)

status_execute_command ==
    /\ variant = "status"
    /\ poll_read(StatusPrompts)

(***************************************************************************)
(* ONTListChecker.clear_buffer / execute_command                           *)
(***************************************************************************)
\* while self.channel.recv_ready(): self.channel.recv(4096)
clear_buffer ==
    /\ variant = "list"
    /\ pc = "start"
    /\ rx # <<>>
    /\ rx' = <<>>
    /\ UNCHANGED <<variant, pc, chunk, output, keys, delivered, emitted, flood, clock, mgrVars>>

\* self.channel.send(f"{command}\n"); time.sleep(5); start_time = time.time()
list_send ==
    /\ variant = "list"
    /\ pc = "start"
    /\ rx = <<>>
    /\ pc' = "loop"
    /\ output' = <<>>
    /\ delivered' = <<>>
    /\ clock' = 0
    /\ UNCHANGED <<variant, rx, chunk, keys, emitted, flood, mgrVars>>

\* if time.time() - start_time > timeout: break
list_timeout ==
    /\ variant = "list"
    /\ pc = "loop"
    /\ clock > ListTimeout
    /\ pc' = "ret_timeout"
    /\ UNCHANGED <<variant, rx, chunk, output, keys, delivered, emitted, flood, clock, mgrVars>>

\* the branch taken on a received chunk
list_branch(c) ==
    IF SawMarker(c) THEN "more"
    ELSE IF SawPrompt(ListPrompts, c) THEN "prompt"
    ELSE "again"

\* if self.channel.recv_ready(): chunk = recv; output += chunk; ...
list_read ==
    /\ variant = "list"
    /\ pc = "loop"
    /\ clock <= ListTimeout
    /\ rx # <<>>
    /\ chunk' = rx
    /\ rx' = <<>>
    /\ delivered' = Keep(delivered \o rx)
    /\ output' = Keep(output \o rx)
    /\ LET b == list_branch(rx) IN
         /\ keys' = IF b = "more" THEN Press(keys) ELSE keys
         /\ pc' = IF b = "prompt" THEN "drain" ELSE "loop"
         /\ clock' = IF b = "more" THEN Sleep(MoreSleep)
                     ELSE IF b = "prompt" THEN Sleep(DrainSleep)
                     ELSE clock
    /\ UNCHANGED <<variant, emitted, flood, mgrVars>>

\* else: time.sleep(0.5)
list_idle ==
    /\ variant = "list"
    /\ pc = "loop"
    /\ clock <= ListTimeout
    /\ rx = <<>>
    /\ clock' = Sleep(PollSleep)
    /\ UNCHANGED <<variant, pc, rx, chunk, output, keys, delivered, emitted, flood, mgrVars>>

\* a slip in the drain loop: the chunk is read and thrown away
list_drained_slip(out, c) == out

\* what the drain loop does with a chunk it reads
list_drained(out, c) == out \o c

\* while self.channel.recv_ready(): output += recv ; break
list_drain ==
    /\ variant = "list"
    /\ pc = "drain"
    /\ IF rx # <<>>
       THEN /\ output' = Keep(list_drained(output, rx))
            /\ delivered' = Keep(delivered \o rx)
            /\ rx' = <<>>
            /\ pc' = pc
       ELSE /\ pc' = "ret_prompt"
            /\ UNCHANGED <<rx, output, delivered>>
    /\ UNCHANGED <<variant, chunk, keys, emitted, flood, clock, mgrVars>>

list_execute_command ==
    \/ list_send
    \/ list_timeout
    \/ list_read
    \/ list_idle
    \/ list_drain

(***************************************************************************)
(* HuaweiOLT: connect, send_command, configure_interface, reset_ont,       *)
(* disconnect.  Every action is one call on the object; the device's       *)
(* answer within the call is drawn from the replies below.                 *)
(***************************************************************************)
Frames == {0}
Slots == {1, 2}

\* what the device may answer to 'interface gpon f/s' within the wait
InterfaceReplies == {<<>>, <<"#">>, <<"Error", "#">>, <<"error", "#">>}

\* what the device may answer to 'ont reset p o' within the wait
ResetReplies == {<<>>, <<"Are you sure">>, <<"Error", "#">>, <<"Command", "#">>}

\* what the device may answer to the confirmation 'y' within the wait
ConfirmReplies == {<<>>, <<"#">>, <<"error", "#">>}

\* the device's answer holds an error marker ('Error' or 'error')
ErrorMarker(out) == \E i \in 1..Len(out) : out[i] \in {"Error", "error"}

\* the record of a call: operation, arguments, return value, whether it
\* wrote its command, and whether the device's answer held an error marker
\* or the send raised
Call(op, a, b, ret, wrote, err) ==
    [op |-> op, a |-> a, b |-> b, ret |-> ret, wrote |-> wrote, err |-> err]

Record(c) ==
    /\ calls < MaxCalls
    /\ calls' = calls + 1
    /\ hist' = IF hist = <<>> THEN <<c>> ELSE <<hist[Len(hist)], c>>

\* the connection is lost: the peer or the network closes the channel
ChannelDrop ==
    /\ channel = "open"
    /\ calls < MaxCalls
    /\ channel' = "closed"
    /\ UNCHANGED <<variant, execVars, statusVars, client, wlog, ctx, calls, hist, answers, batchVars, transport>>

\* how far connect gets: client.connect raises, invoke_shell raises, the
\* channel is closed before 'enable' or before 'config' can be sent, or all
\* of it succeeds
ConnectOutcomes == {"refused", "noshell", "enable_fails", "config_fails", "ok"}

\* the commands _enter_enable_mode wrote, by how far connect got
mode_entry(outcome) ==
    IF outcome = "ok" THEN << <<"enable">>, <<"config">> >>
    ELSE IF outcome = "config_fails" THEN << <<"enable">> >>
    ELSE <<>>

\* what the device may answer to 'enable' within the wait: the privileged
\* prompt, or the user prompt again (the command was refused)
EnableAnswers == {<<"#">>, <<">">>}

\* what the device may answer to 'config' within the wait: the global
\* configuration prompt, or the prompt it had before
ConfigAnswers == {<<"(config", ")", "#">>, <<"#">>}

\* output = self.send_command('enable') / ('config'): the answers are logged
\* when verbose and otherwise unused
mode_answers(outcome, ae, ac) ==
    IF outcome = "ok" THEN <<ae, ac>>
    ELSE IF outcome = "config_fails" THEN <<ae>>
    ELSE <<>>

connect ==
    /\ variant = "manager"
    /\ \E outcome \in ConnectOutcomes :
         /\ IF outcome \in {"refused", "noshell"}
            THEN /\ client' = "other"
                 /\ UNCHANGED <<channel, wlog>>
            ELSE /\ client' = "own"
                 /\ channel' = IF outcome = "ok" THEN "open" ELSE "closed"
                 /\ wlog' = mode_entry(outcome)
         /\ transport' = IF outcome = "refused" THEN "none" ELSE "open"
         /\ \E ae \in EnableAnswers, ac \in ConfigAnswers :
              answers' = mode_answers(outcome, ae, ac)
         /\ Record(Call("connect", NoId, NoId, outcome = "ok",
                        outcome \in {"config_fails", "ok"}, outcome # "ok"))
    /\ UNCHANGED <<variant, execVars, statusVars, ctx, batchVars>>

\* send_command raises: `if not self.channel`, or send on a closed channel
send_raises == channel # "open"

\* a slip in the test: only the capitalised marker is looked for
has_error_slip(out) == In(<<"Error">>, out)

\* 'Error' in output or 'error' in output
has_error(out) == In(<<"Error">>, out) \/ In(<<"error">>, out)

\* a slip in the comparison: the slot is compared with the frame id
already_there_slip(f, s) == current_frame = f /\ current_slot = f

\* self.current_frame == frame_id and self.current_slot == slot_id
already_there(f, s) == current_frame = f /\ current_slot = s

\* a slip in the name: frame and slot change places
interface_name_slip(f, s) == <<"GPON", s, f>>

\* f"GPON {frame_id}/{slot_id}"
interface_name(f, s) == <<"GPON", f, s>>

configure_interface(f, s) ==
    /\ variant = "manager"
    /\ IF already_there(f, s)
       THEN /\ Record(Call("configure_interface", f, s, TRUE, FALSE, FALSE))
            /\ UNCHANGED <<wlog, ctx>>
       ELSE IF send_raises
       THEN /\ Record(Call("configure_interface", f, s, FALSE, FALSE, TRUE))
            /\ UNCHANGED <<wlog, ctx>>
       ELSE \E out \in InterfaceReplies :
            /\ wlog' = Append(wlog, <<"interface gpon", f, s>>)
            /\ IF has_error(out)
               THEN /\ Record(Call("configure_interface", f, s, FALSE, TRUE,
                                   ErrorMarker(out)))
                    /\ UNCHANGED ctx
               ELSE /\ Record(Call("configure_interface", f, s, TRUE, TRUE,
                                   ErrorMarker(out)))
                    /\ current_frame' = f
                    /\ current_slot' = s
                    /\ current_interface' = interface_name(f, s)
    /\ UNCHANGED <<variant, execVars, statusVars, channel, client, answers, batchVars, transport>>

\* 'Error' in output or 'error' in output or 'Command' in output
reset_failed(out) ==
    In(<<"Error">>, out) \/ In(<<"error">>, out) \/ In(<<"Command">>, out)

\* "Are you sure" in output
asks_confirmation(out) == In(<<"Are you sure">>, out)

\* a slip in the capture: the text that follows the confirmation is dropped
reset_output_slip(out, more) == out

\* output += ... after the confirmation: the text that is classified
reset_output(out, more) == out \o more

\* One reset command cycle (reset_ont, and the inner try of
\* reset_multiple_onts) on an open channel: the driver writes the command,
\* captures `out`, and if that asks for confirmation writes 'y' and captures
\* `more`; `lost` is the channel closing before 'y' is written, so that the
\* send raises.  The record holds what was captured, what was written, and
\* the verdict.
reset_cycle(p, o, out, more, lost) ==
    IF asks_confirmation(out)
    THEN IF lost
         THEN [out |-> out, more |-> <<>>, sent |-> << <<"ont reset", p, o>> >>,
               lost |-> TRUE, ret |-> FALSE]
         ELSE [out |-> out, more |-> more,
               sent |-> << <<"ont reset", p, o>>, <<"y">> >>,
               lost |-> FALSE,
               ret |-> ~reset_failed(reset_output(out, more))]
    ELSE [out |-> out, more |-> <<>>, sent |-> << <<"ont reset", p, o>> >>,
          lost |-> FALSE, ret |-> ~reset_failed(out)]

\* a slip in the guard: the context is not looked at
no_interface_slip == FALSE

\* if not self.current_interface
no_interface == current_interface = NoInterface

reset_ont(p, o) ==
    /\ variant = "manager"
    /\ IF no_interface \/ send_raises
       THEN /\ Record(Call("reset_ont", p, o, FALSE, FALSE, current_interface # NoInterface))
            /\ UNCHANGED <<wlog, channel, cycle>>
       ELSE \E out \in ResetReplies, more \in ConfirmReplies, lost \in BOOLEAN :
            LET c == reset_cycle(p, o, out, more, lost) IN
            /\ wlog' = wlog \o c.sent
            /\ channel' = IF c.lost THEN "closed" ELSE channel
            /\ cycle' = c
            /\ Record(Call("reset_ont", p, o, c.ret, TRUE, ~c.ret))
    /\ UNCHANGED <<variant, execVars, statusVars, client, ctx, answers,
                   ont_list, idx, results, bpc, bwrote, berr, pauses, transport>>

\* if self.client: self.client.close()
disconnect ==
    /\ variant \in {"manager", "status_checker"}
    /\ channel' = IF client = "own" /\ channel = "open" THEN "closed" ELSE channel
    /\ transport' = IF client # None /\ transport = "open" THEN "closed" ELSE transport
    /\ Record(Call("disconnect", NoId, NoId, TRUE, FALSE, FALSE))
    /\ UNCHANGED <<variant, execVars, statusVars, client, wlog, ctx, answers, batchVars>>

(***************************************************************************)
(* HuaweiOLT.reset_multiple_onts (the manager of src/src, which has the    *)
(* batch reset in place of reset_ont).  The call is entered, the loop body *)
(* runs once per item, and the call returns; no other call runs meanwhile. *)
(***************************************************************************)
\* items per batch
MaxItems == 3

\* the items of a work list: with both keys, or lacking the 'ont' key
Items == {[port |-> 1, ont |-> 1], [port |-> 1, ont |-> 2], [port |-> 1]}

\* the work lists
Lists == UNION {[1..n -> Items] : n \in 0..MaxItems}

\* results = {}
EmptyDict == [k \in {} |-> FALSE]

\* results[k] = v
Put(d, k, v) == [x \in DOMAIN d \cup {k} |-> IF x = k THEN v ELSE d[x]]

\* ont_info['port'] and ont_info['ont'] do not raise KeyError
has_keys(item) == {"port", "ont"} \subseteq DOMAIN item

\* ont_key = f"{port_id}/{ont_id}"
ont_key(item) == <<item.port, item.ont>>

\* the record of a returned batch: items given, entries in the result,
\* returned normally, wrote a command, a channel operation raised
BatchCall ==
    Call("reset_multiple_onts", Len(ont_list), Cardinality(DOMAIN results),
         TRUE, bwrote, berr)

\* a slip in the placement: the pause follows a success only
pause_taken_slip(c) == c.ret

\* time.sleep(1), the last statement of the inner try: reached when the
\* result was recorded, True or False, and skipped when the try raised
pause_taken(c) == ~c.lost

\* the call is entered: results = {}; `if not self.current_interface:
\* return results`, before the list is looked at
reset_multiple_onts ==
    /\ variant = "manager"
    /\ bpc = "idle"
    /\ \E l \in Lists :
         IF no_interface
         THEN /\ Record(Call("reset_multiple_onts", Len(l), 0, TRUE, FALSE, FALSE))
              /\ bpc' = "idle"
              /\ UNCHANGED ont_list
         ELSE /\ calls < MaxCalls
              /\ ont_list' = l
              /\ bpc' = "loop"
              /\ UNCHANGED <<calls, hist>>
    /\ idx' = 0
    /\ results' = EmptyDict
    /\ bwrote' = FALSE
    /\ berr' = FALSE
    /\ pauses' = 0
    /\ UNCHANGED <<variant, execVars, statusVars, channel, client, wlog, ctx, answers, cycle, transport>>

\* the loop body for the next item.  A missing key raises KeyError outside
\* the inner try: the outer except returns the results gathered so far.
\* Inside the inner try a raising send is caught: results[ont_key] = False
\* and the loop goes on.
reset_item ==
    /\ variant = "manager"
    /\ bpc = "loop"
    /\ idx < Len(ont_list)
    /\ LET item == ont_list[idx + 1] IN
       IF ~has_keys(item)
       THEN /\ Record(BatchCall)
            /\ bpc' = "idle"
            /\ UNCHANGED <<channel, wlog, idx, results, cycle, bwrote, berr, pauses>>
       ELSE /\ idx' = idx + 1
            /\ UNCHANGED <<bpc, calls, hist>>
            /\ IF send_raises
               THEN /\ results' = Put(results, ont_key(item), FALSE)
                    /\ berr' = TRUE
                    /\ UNCHANGED <<channel, wlog, cycle, bwrote, pauses>>
               ELSE \E out \in ResetReplies, more \in ConfirmReplies, lost \in BOOLEAN :
                    LET c == reset_cycle(item.port, item.ont, out, more, lost) IN
                    /\ wlog' = wlog \o c.sent
                    /\ channel' = IF c.lost THEN "closed" ELSE channel
                    /\ cycle' = c
                    /\ results' = Put(results, ont_key(item), c.ret)
                    /\ bwrote' = TRUE
                    /\ berr' = (berr \/ c.lost)
                    /\ pauses' = IF pause_taken(c) THEN pauses + 1 ELSE pauses
    /\ UNCHANGED <<variant, execVars, statusVars, client, ctx, answers, ont_list, transport>>

\* return results, after the last item
reset_return ==
    /\ variant = "manager"
    /\ bpc = "loop"
    /\ idx = Len(ont_list)
    /\ Record(BatchCall)
    /\ bpc' = "idle"
    /\ UNCHANGED <<variant, execVars, statusVars, channel, client, wlog, ctx, answers,
                   ont_list, idx, results, cycle, bwrote, berr, pauses, transport>>

(***************************************************************************)
(* main() of the manager of src/src: connect, configure_interface,         *)
(* reset_multiple_onts, verify_ont_status for the items that were reset,   *)
(* and disconnect in the finally clause.                                   *)
(***************************************************************************)
\* the record of the last call
last == hist[Len(hist)]

\* if not olt.connect(): return
main_connect ==
    /\ run = "start"
    /\ connect
    /\ run' = IF last'.ret THEN "connected" ELSE "finally"

\* if not olt.configure_interface(args.frame, args.slot): return
main_configure ==
    /\ run = "connected"
    /\ \E f \in Frames, s \in Slots : configure_interface(f, s)
    /\ run' = IF last'.ret THEN "configured" ELSE "finally"

\* single mode without --port/--ont, batch mode without --onts or with
\* text that is no JSON: print the error and return
main_bad_arguments ==
    /\ variant = "manager"
    /\ run = "configured"
    /\ run' = "finally"
    /\ UNCHANGED <<variant, execVars, statusVars, channel, client, wlog, ctx, calls, hist,
                   answers, batchVars, transport>>

\* results = olt.reset_multiple_onts(ont_list), the call
main_reset ==
    /\ run = "configured"
    /\ reset_multiple_onts
    /\ run' = IF bpc' = "idle" THEN "results" ELSE "batch"

\* results = olt.reset_multiple_onts(ont_list), an item or the return
main_reset_step ==
    /\ run = "batch"
    /\ reset_item \/ reset_return
    /\ run' = IF bpc' = "idle" THEN "results" ELSE "batch"

\* any(results.values())
any_reset == \E k \in DOMAIN results : results[k]

\* the commands the verification loop writes on an open channel: one
\* 'display ont info' for every item whose reset succeeded, up to the first
\* item that lacks a key (there ont_info['port'] raises KeyError)
RECURSIVE verify_cmds(_)
verify_cmds(l) ==
    IF l = <<>> \/ ~has_keys(Head(l)) THEN <<>>
    ELSE (IF ont_key(Head(l)) \in DOMAIN results /\ results[ont_key(Head(l))]
          THEN << <<"display ont info", Head(l).port, Head(l).ont>> >>
          ELSE <<>>) \o verify_cmds(Tail(l))

\* the verification loop raises KeyError
verify_raises == \E i \in 1..Len(ont_list) : ~has_keys(ont_list[i])

\* the results are printed; if any reset succeeded, the verification loop
\* runs: verify_ont_status catches a raising send_command and returns None
main_verify ==
    /\ variant = "manager"
    /\ run = "results"
    /\ IF any_reset
       THEN /\ wlog' = IF send_raises THEN wlog ELSE wlog \o verify_cmds(ont_list)
            /\ Record(Call("verify_ont_status", NoId, NoId, ~verify_raises,
                           ~send_raises /\ verify_cmds(ont_list) # <<>>,
                           send_raises \/ verify_raises))
       ELSE UNCHANGED <<wlog, calls, hist>>
    /\ run' = "finally"
    /\ UNCHANGED <<variant, execVars, statusVars, channel, client, ctx, answers, batchVars,
                   transport>>

\* finally: olt.disconnect()
main_disconnect ==
    /\ run = "finally"
    /\ disconnect
    /\ run' = "exited"

\* the connection is lost while main runs
main_channel_drop ==
    /\ run \in {"connected", "configured", "batch", "results"}
    /\ ChannelDrop
    /\ UNCHANGED run

(***************************************************************************)
(* ONTStatusChecker.check_single_ont_status: seven commands, then the      *)
(* extraction.  A command cycle is one step here (its chunks are the       *)
(* subject of Spec); the text it returns is a sequence of tokens in which  *)
(* a field is its label followed by its value.  The fields modelled are    *)
(* run_state and distance of the info text, rx and tx of the optical text  *)
(* and ont_version of the version text; the other fields follow the same   *)
(* two shapes.                                                             *)
(***************************************************************************)
\* <<frame, slot, port, ont>>
Targets == {<<0, 1, 1, 1>>, <<0, 1, 1, 2>>}

\* a slip in the order: the first 'quit' is left out
StatusScript_slip ==
    <<"display ont info", "interface gpon", "display ont optical-info",
      "interface gpon", "display ont version", "quit", "quit">>

\* the commands, in the order the function writes them
StatusScript ==
    <<"display ont info", "interface gpon", "display ont optical-info", "quit",
      "interface gpon", "display ont version", "quit">>

\* the n-th command for target t
status_command(n, t) ==
    IF StatusScript[n] = "display ont info" THEN <<"display ont info", t[1], t[2], t[3], t[4]>>
    ELSE IF StatusScript[n] = "interface gpon" THEN <<"interface gpon", t[1], t[2]>>
    ELSE IF StatusScript[n] = "quit" THEN <<"quit">>
    ELSE <<StatusScript[n], t[3], t[4]>>

\* 'The ONT does not exist'
NotExists == "The ONT does not exist"

\* the values a field may show, by the pattern group that accepts them:
\* (\w+)
Word == {"online", "1200", "V1"}
\* (\d+)
Digits == {"1200"}
\* ([-\d.]+)
Numeric == {"1200", "-14.2", "-"}
\* ([^\r\n]+)
Line == {"online", "1200", "V1", "-14.2", "-"}

\* re.search found nothing
NoMatch == "<no match>"

\* re.search(label \s*:\s* group, text).group(1): the value of the first
\* field `label` whose value the group accepts
Field(label, group, text) ==
    LET hits == {i \in 1..(Len(text) - 1) : text[i] = label /\ text[i + 1] \in group}
    IN IF hits = {} THEN NoMatch
       ELSE text[(CHOOSE i \in hits : \A j \in hits : i <= j) + 1]

\* what the device may answer to 'display ont info'
InfoTexts ==
    {a \o b \o c : a \in {<<>>, <<NotExists>>, <<"online">>},
                   b \in {<<>>, <<"Run state", "online">>, <<"Run state", "-">>},
                   c \in {<<>>, <<"ONT distance(m)", "1200">>, <<"ONT distance(m)", "-">>}}

\* what the device may answer to 'display ont optical-info'
OpticalTexts ==
    {<<"Unknown command">>} \cup
    {a \o b : a \in {<<>>, <<"Rx optical power(dBm)", "-14.2">>, <<"Rx optical power(dBm)", "-">>},
              b \in {<<>>, <<"Tx optical power(dBm)", "-14.2">>}}

\* what the device may answer to 'display ont version'
VersionTexts == {<<>>, <<"Unknown command">>, <<"ONT Version", "V1">>, <<"ONT Version", "-">>}

\* value.upper()
upper(v) == IF v = "online" THEN "ONLINE" ELSE v

\* match and match.group(1).strip() not in ['-', '']
kept(v) == v # NoMatch /\ v \notin {"-", ""}

\* a slip in the test: only a text that is the marker and nothing else counts
not_exists_slip(info) == info = <<NotExists>>

\* 'The ONT does not exist' in info_output
not_exists(info) == In(<<NotExists>>, info)

\* optical_data: one entry per optical pattern that matched
optical_data(text) ==
    LET rx_power == Field("Rx optical power(dBm)", Numeric, text)
        tx_power == Field("Tx optical power(dBm)", Numeric, text)
    IN [k \in {x \in {"rx", "tx"} :
                 IF x = "rx" THEN rx_power # NoMatch ELSE tx_power # NoMatch}
           |-> IF k = "rx" THEN rx_power \o " dBm" ELSE tx_power \o " dBm"]

\* version_data: one entry per version pattern that matched and was kept
version_data(text) ==
    LET v == Field("ONT Version", Line, text)
    IN [k \in {x \in {"ont_version"} : kept(v)} |-> v]

\* a text was captured and the device knew the command
usable(text) == text # <<>> /\ ~In(<<"Unknown command">>, text)

\* the dictionary check_single_ont_status returns
extract(t, info, optical, version) ==
    IF not_exists(info)
    THEN [frame |-> t[1], slot |-> t[2], port |-> t[3], ont_id |-> t[4],
          run_state |-> "NOT_EXISTS"]
    ELSE LET rs == Field("Run state", Word, info)
             di == Field("ONT distance(m)", Digits, info)
         IN [frame |-> t[1], slot |-> t[2], port |-> t[3], ont_id |-> t[4],
             run_state |-> IF kept(rs) THEN upper(rs) ELSE "OFFLINE",
             distance |-> IF kept(di) THEN di \o "m" ELSE "",
             optical |-> IF usable(optical) /\ DOMAIN optical_data(optical) # {}
                         THEN optical_data(optical)
                         ELSE [rx |-> "", tx |-> ""],
             version |-> IF usable(version) /\ DOMAIN version_data(version) # {}
                         THEN version_data(version)
                         ELSE [ont_version |-> ""]]

\* the next command of check_single_ont_status: it is written and the text
\* that comes back is kept (info, optical, version) or dropped (interface,
\* quit); a raising send leaves the function, and main
check_command ==
    /\ variant = "status"
    /\ run = "connected"
    /\ step < Len(StatusScript)
    /\ IF send_raises
       THEN /\ run' = "finally"
            /\ UNCHANGED <<wlog, statusVars>>
       ELSE /\ \E t \in (IF step = 0 THEN Targets ELSE {target}) :
                 /\ target' = t
                 /\ wlog' = Append(wlog, status_command(step + 1, t))
            /\ step' = step + 1
            /\ LET kind == StatusScript[step + 1] IN
               /\ info_output' \in
                      IF kind = "display ont info" THEN InfoTexts ELSE {info_output}
               /\ optical_output' \in
                      IF kind = "display ont optical-info" THEN OpticalTexts
                      ELSE {optical_output}
               /\ version_output' \in
                      IF kind = "display ont version" THEN VersionTexts
                      ELSE {version_output}
               /\ IF kind = "interface gpon" /\ rejected = 0
                  THEN \E a \in InterfaceReplies :
                       rejected' = IF ErrorMarker(a) THEN Len(wlog) + 1 ELSE 0
                  ELSE UNCHANGED rejected
            /\ UNCHANGED <<run, status_info, listVars, normVars, twoVars>>
    /\ UNCHANGED <<variant, execVars, channel, client, ctx, calls, hist, answers,
                   batchVars, transport>>

\* the extraction, and the return to main
check_single_ont_status ==
    /\ variant = "status"
    /\ run = "connected"
    /\ step = Len(StatusScript)
    /\ status_info' = extract(target, info_output, optical_output, version_output)
    /\ run' = "finally"
    /\ UNCHANGED <<variant, execVars, channel, client, wlog, ctx, calls, hist,
                   answers, batchVars, transport, step, target, info_output,
                   optical_output, version_output, rejected, listVars, normVars,
                   twoVars>>

(***************************************************************************)
(* main() of the three checkers: connect, the query, close in the finally  *)
(* clause.  The status checker is run in single mode.                      *)
(***************************************************************************)
\* the commands connect (ports) or _setup_session (status, list) writes
setup_commands ==
    IF variant = "ports" THEN << <<"enable">>, <<"config">> >>
    ELSE IF variant = "status"
    THEN << <<"enable">>, <<"config">>, <<"mmi-mode original-output">> >>
    ELSE << <<"enable">>, <<"config">>, <<"undo smart">>,
            <<"mmi-mode original-output">> >>

\* checker.connect(): client.connect raises, invoke_shell raises, the
\* channel is closed before the first mode-entry command, or all succeeds.
\* On any exception connect prints the error and calls sys.exit(1); the
\* SystemExit passes main's `except Exception` and main's finally runs.
checker_connect ==
    /\ variant \in Checkers
    /\ run = "start"
    /\ \E outcome \in {"refused", "noshell", "setup_fails", "ok"} :
         /\ transport' = IF outcome = "refused" THEN "none" ELSE "open"
         /\ channel' = IF outcome \in {"refused", "noshell"} THEN None
                       ELSE IF outcome = "ok" THEN "open" ELSE "closed"
         /\ wlog' = IF outcome = "ok" THEN setup_commands ELSE <<>>
         /\ Record(Call("connect", NoId, NoId, outcome = "ok", outcome = "ok",
                        outcome # "ok"))
         /\ printed' = IF outcome = "ok" THEN printed ELSE "error"
         /\ run' = IF outcome = "ok" THEN "connected" ELSE "finally"
    /\ UNCHANGED <<variant, execVars, step, target, info_output, optical_output,
                   version_output, rejected, status_info, summary, onts, failed,
                   normVars, twoVars, client, ctx, answers, batchVars>>

\* the commands written for the GPON slots found in state 'normal'
RECURSIVE slot_commands(_)
slot_commands(found) ==
    IF found = <<>> THEN <<>>
    ELSE << <<"interface gpon", 0, Head(found)>>, <<"display port state all">>,
            <<"quit">> >> \o slot_commands(Tail(found))

\* inventory = checker.get_slots_and_ports(): 'display board 0', then three
\* commands per slot found; a raising send leaves the function, and main
get_slots_and_ports ==
    /\ variant = "ports"
    /\ run = "connected"
    /\ IF send_raises
       THEN UNCHANGED wlog
       ELSE \E found \in {<<>>, <<1>>, <<1, 2>>} :
            wlog' = Append(wlog, <<"display board 0">>) \o slot_commands(found)
    /\ run' = "finally"
    /\ UNCHANGED <<variant, execVars, statusVars, channel, client, ctx, calls,
                   hist, answers, batchVars, transport>>

(***************************************************************************)
(* ONTListChecker.check_port_onts.  The captured text is a sequence of     *)
(* lines and a line a sequence of columns (the rx/tx column is written as  *)
(* its two parts); a header line is its one heading.                       *)
(***************************************************************************)
\* 'ONT  Run     Last' and 'ONT        SN        Type'
StatusHeader == <<"ONT  Run     Last">>
DetailsHeader == <<"ONT        SN        Type">>

\* the columns by the pattern group that accepts them: \d+
IsDigits(c) == c \in {"3", "4", "120"}
\* \w+
IsWord(c) == c \in {"3", "4", "120", "online", "offline", "ABCD1234", "HWTC5678", "HG8245"}
\* [A-F0-9]+
IsSerial(c) == c \in {"3", "4", "120", "ABCD1234"}
\* [\d-]+\s+[\d:]+
IsStamp(c) == c \in {"2024-01-01 10:00:00", "2024-01-02 11:00:00"}

\* the line filters of the section loop
status_line(l) == Len(l) >= 3 /\ IsDigits(l[1]) /\ IsWord(l[2])
details_line(l) == Len(l) >= 3 /\ IsDigits(l[1]) /\ IsSerial(l[2])

\* status_lines (want = "status") or details_lines (want = "details"): the
\* lines of the section that pass its filter, in order
RECURSIVE section_lines(_, _, _)
section_lines(lines, current_section, want) ==
    IF lines = <<>> THEN <<>>
    ELSE LET line == Head(lines) IN
         IF In(StatusHeader, line) THEN section_lines(Tail(lines), "status", want)
         ELSE IF In(DetailsHeader, line) THEN section_lines(Tail(lines), "details", want)
         ELSE (IF current_section = want
                  /\ (IF want = "status" THEN status_line(line) ELSE details_line(line))
               THEN <<line>> ELSE <<>>)
              \o section_lines(Tail(lines), current_section, want)

\* status_pattern.match(line)
status_match(l) ==
    Len(l) = 5 /\ IsDigits(l[1]) /\ IsWord(l[2]) /\ IsStamp(l[3]) /\ IsStamp(l[4])

\* details_pattern.match(line)
details_match(l) ==
    /\ Len(l) = 7 /\ IsDigits(l[1]) /\ IsSerial(l[2])
    /\ (IsDigits(l[4]) \/ l[4] = "-")

\* status_dict: the last matching row of an ONT id wins
RECURSIVE status_dict(_)
status_dict(ls) ==
    IF ls = <<>> THEN EmptyDict
    ELSE LET d == status_dict(SubSeq(ls, 1, Len(ls) - 1))
             l == ls[Len(ls)]
         IN IF status_match(l)
            THEN Put(d, l[1], [run_state |-> l[2], last_up_time |-> l[3],
                               last_down_time |-> l[4], last_down_cause |-> l[5]])
            ELSE d

\* status_dict.get(ont_id, {...})
unknown_status ==
    [run_state |-> "unknown", last_up_time |-> "", last_down_time |-> "",
     last_down_cause |-> ""]

\* the slip: the distance is formatted without its unit
distance_slip(distance) == distance
\* f"{distance}m"
distance_m(distance) == distance \o "m"

\* ont_info for a matching details row
ont_info_of(t, l, sd) ==
    LET dash == l[4] = "-" \/ l[5] = "-"
        distance == IF dash THEN "0" ELSE l[4]
        rx_power == IF dash THEN "0" ELSE l[5]
        tx_power == IF dash THEN "0" ELSE l[6]
    IN [frame |-> t[1], slot |-> t[2], port |-> t[3], ont_id |-> l[1],
        serial_number |-> l[2], type |-> l[3],
        distance |-> distance_m(distance),
        optical |-> [rx |-> rx_power \o " dBm", tx |-> tx_power \o " dBm"],
        description |-> l[7],
        status |-> IF l[1] \in DOMAIN sd THEN sd[l[1]] ELSE unknown_status]

\* the loop over details_lines
RECURSIVE details_list(_, _, _)
details_list(t, ls, sd) ==
    IF ls = <<>> THEN <<>>
    ELSE (IF details_match(Head(ls)) THEN <<ont_info_of(t, Head(ls), sd)>> ELSE <<>>)
         \o details_list(t, Tail(ls), sd)

\* what check_port_onts returns for a captured text
parse_summary(t, text) ==
    details_list(t, section_lines(text, "none", "details"),
                 status_dict(section_lines(text, "none", "status")))

\* frame, slot, port of the run
ListTarget == <<0, 1, 1>>

\* the rows the device may show
StatusRows ==
    {<<>>,
     << <<"3", "online", "2024-01-01 10:00:00", "2024-01-02 11:00:00", "power-fail">> >>,
     << <<"4", "offline", "2024-01-01 10:00:00", "2024-01-02 11:00:00", "dying-gasp">> >>,
     << <<"4", "offline", "-", "-", "-">> >>,
     << <<"3", "online", "2024-01-01 10:00:00", "2024-01-02 11:00:00", "power-fail">>,
        <<"4", "offline", "2024-01-01 10:00:00", "2024-01-02 11:00:00", "dying-gasp">> >>}
DetailsRows ==
    {<<>>,
     << <<"3", "ABCD1234", "HG8245", "120", "-15.1", "2.3", "desc">> >>,
     << <<"4", "ABCD1234", "HG8245", "-", "-", "-", "desc">> >>,
     << <<"4", "HWTC5678", "HG8245", "120", "-15.1", "2.3", "desc">> >>,
     << <<"3", "ABCD1234", "HG8245", "120", "-15.1", "2.3", "desc">>,
        <<"3", "ABCD1234", "HG8245", "120", "-15.1", "2.3", "desc">> >>}

\* what the device may answer to 'display ont info summary f/s/p'
Captures ==
    {(h1 \o r1) \o (h2 \o r2) :
        h1 \in {<<>>, <<StatusHeader>>}, r1 \in StatusRows,
        h2 \in {<<>>, <<DetailsHeader>>}, r2 \in DetailsRows}

\* results = checker.check_port_onts(frame, slot, port): one command and the
\* parsing of its text; an exception is caught inside and [] returned.
\* Then main prints [] if results is empty and the list otherwise.
check_port_onts ==
    /\ variant = "list"
    /\ run = "connected"
    /\ IF send_raises
       THEN /\ wlog' = wlog
            /\ summary' = <<>>
            /\ onts' = <<>>
            /\ failed' = TRUE
       ELSE \E text \in Captures :
            /\ wlog' = Append(wlog, <<"display ont info summary", 0, 1, 1>>)
            /\ summary' = text
            /\ onts' = parse_summary(ListTarget, text)
            /\ failed' = FALSE
    /\ printed' = IF onts' = <<>> THEN "[]" ELSE "list"
    /\ run' = "finally"
    /\ UNCHANGED <<variant, execVars, step, target, info_output, optical_output,
                   version_output, rejected, status_info, normVars, twoVars,
                   channel, client, ctx, calls, hist, answers, batchVars, transport>>

\* finally: checker.close(): if self.channel: self.channel.close();
\* self.client.close()
close ==
    /\ variant \in Checkers
    /\ run = "finally"
    /\ channel' = IF channel = None THEN None ELSE "closed"
    /\ transport' = IF transport = "open" THEN "closed" ELSE transport
    /\ Record(Call("close", NoId, NoId, TRUE, FALSE, FALSE))
    /\ run' = "exited"
    /\ UNCHANGED <<variant, execVars, statusVars, client, wlog, ctx, answers,
                   batchVars>>

(***************************************************************************)
(* main() of HuaweiOLTStatusChecker (huawei_ont_status_checker.py), from   *)
(* the text of its functions.                                              *)
(***************************************************************************)
\* if not checker.connect(): return -- before the try statement.  connect
\* makes a new SSHClient, connects, opens the shell and enters no mode.
status_checker_connect ==
    /\ variant = "status_checker"
    /\ run = "start"
    /\ \E outcome \in {"refused", "noshell", "ok"} :
         /\ client' = "own"
         /\ transport' = IF outcome = "refused" THEN "none" ELSE "open"
         /\ channel' = IF outcome = "ok" THEN "open" ELSE channel
         /\ Record(Call("connect", NoId, NoId, outcome = "ok", FALSE, outcome # "ok"))
         /\ run' = IF outcome = "ok" THEN "connected" ELSE "exited"
    /\ UNCHANGED <<variant, execVars, statusVars, wlog, ctx, answers, batchVars>>

\* the try block: verify_ont_status (single mode; a raising send_command is
\* caught and None returned), or a missing argument is reported
status_checker_verify ==
    /\ variant = "status_checker"
    /\ run = "connected"
    /\ \E given \in BOOLEAN :
         wlog' = IF given /\ ~send_raises
                 THEN Append(wlog, <<"display ont info", 0, 1, 1, 1>>)
                 ELSE wlog
    /\ run' = "finally"
    /\ UNCHANGED <<variant, execVars, statusVars, channel, client, ctx, calls,
                   hist, answers, batchVars, transport>>

(***************************************************************************)
(* ONTStatusChecker.parse_date.  strptime is the table of the strings and  *)
(* formats that parse, with the ISO rendering of the result.               *)
(***************************************************************************)
\* the candidate formats, in their listed order
formats ==
    <<"%Y-%m-%d %H:%M:%S", "%Y-%m-%d %H:%M:%S%z", "%Y-%m-%d %H:%M:%S+%f",
      "%Y-%m-%d %H:%M:%S-%f", "%Y%m%d%H%M%S", "%Y-%m-%d">>

\* the values a date field may hold
Dates ==
    {"", "-", " ", "never", "2024-01-01 10:00:00", "2024-01-01 10:00:00+08:00",
     "2024-01-01 10:00:00+0800", "2024-01-01 10:00:00+08",
     "2024-01-01 10:00:00-0800", "20240101100000", "2024-01-01", " 2024-01-01 "}

\* date_str.strip()
strip(v) == IF v = " 2024-01-01 " THEN "2024-01-01" ELSE IF v = " " THEN "" ELSE v

\* parse_date has not been called
NoDate == "<not called>"

\* datetime.strptime(v, fmt).isoformat(): <<v, fmt, rendering>>; a pair not
\* listed raises ValueError
StrptimeTable ==
    {<<"2024-01-01 10:00:00", "%Y-%m-%d %H:%M:%S", "2024-01-01T10:00:00">>,
     <<"2024-01-01 10:00:00+08:00", "%Y-%m-%d %H:%M:%S%z", "2024-01-01T10:00:00+08:00">>,
     <<"2024-01-01 10:00:00+0800", "%Y-%m-%d %H:%M:%S%z", "2024-01-01T10:00:00+08:00">>,
     <<"2024-01-01 10:00:00+0800", "%Y-%m-%d %H:%M:%S+%f", "2024-01-01T10:00:00.080000">>,
     <<"2024-01-01 10:00:00+08", "%Y-%m-%d %H:%M:%S+%f", "2024-01-01T10:00:00.080000">>,
     <<"2024-01-01 10:00:00-0800", "%Y-%m-%d %H:%M:%S%z", "2024-01-01T10:00:00-08:00">>,
     <<"2024-01-01 10:00:00-0800", "%Y-%m-%d %H:%M:%S-%f", "2024-01-01T10:00:00.080000">>,
     <<"20240101100000", "%Y%m%d%H%M%S", "2024-01-01T10:00:00">>,
     <<"2024-01-01", "%Y-%m-%d", "2024-01-01T00:00:00">>}

\* the rendering, or NoMatch for ValueError
strptime(v, fmt) ==
    IF \E r \in StrptimeTable : r[1] = v /\ r[2] = fmt
    THEN (CHOOSE r \in StrptimeTable : r[1] = v /\ r[2] = fmt)[3]
    ELSE NoMatch

\* a slip in the loop: a later format that parses overrides an earlier one
RECURSIVE try_formats_slip(_, _)
try_formats_slip(v, fmts) ==
    IF fmts = <<>> THEN NoMatch
    ELSE LET later == try_formats_slip(v, Tail(fmts))
         IN IF later # NoMatch THEN later ELSE strptime(strip(v), Head(fmts))

\* for fmt in formats: try: return strptime(...).isoformat() except
\* ValueError: continue
RECURSIVE try_formats(_, _)
try_formats(v, fmts) ==
    IF fmts = <<>> THEN NoMatch
    ELSE LET dt == strptime(strip(v), Head(fmts))
         IN IF dt # NoMatch THEN dt ELSE try_formats(v, Tail(fmts))

parse_date(v) ==
    IF v = "" \/ v = "-" THEN ""
    ELSE LET dt == try_formats(v, formats)
         IN IF dt # NoMatch THEN dt ELSE v

\* time_value = self.parse_date(value)
call_parse_date ==
    /\ variant = "normalizer"
    /\ date_out = NoDate
    /\ date_out' = parse_date(date_str)
    /\ UNCHANGED <<variant, execVars, channel, client, wlog, ctx, calls, hist,
                   answers, batchVars, transport, step, target, info_output,
                   optical_output, version_output, rejected, status_info,
                   listVars, twoVars, date_str, record, cleaned, recleaned, run>>

(***************************************************************************)
(* clean_dict.  A Python value is a record with its type t and its value:  *)
(* s for a string, number or boolean as written, l for a list (a sequence  *)
(* of values), d for a dict (a function on its keys).                      *)
(***************************************************************************)
PyNone == [t |-> "None", s |-> "", l |-> <<>>, d |-> <<>>]
PyStr(x) == [t |-> "str", s |-> x, l |-> <<>>, d |-> <<>>]
PyInt(x) == [t |-> "int", s |-> x, l |-> <<>>, d |-> <<>>]
PyBool(x) == [t |-> "bool", s |-> x, l |-> <<>>, d |-> <<>>]
PyList(x) == [t |-> "list", s |-> "", l |-> x, d |-> <<>>]
PyDict(f) == [t |-> "dict", s |-> "", l |-> <<>>, d |-> f]

\* clean_dict has not been called
NoValue == [t |-> "<not called>", s |-> "", l |-> <<>>, d |-> <<>>]

\* values that are neither dicts nor hold one
Leaves ==
    {PyNone, PyStr(""), PyStr("x"), PyInt("0"), PyBool("False"), PyList(<<>>),
     PyList(<<PyNone>>), PyList(<<PyStr("x")>>)}

\* the dicts with keys among ks and values in vals
Dicts(ks, vals) == {PyDict(f) : f \in UNION {[d -> vals] : d \in SUBSET ks}}

\* dicts nested up to three deep, and a list that holds a dict
Inner == Dicts({"c"}, Leaves)
Middle == Dicts({"b"}, Leaves \cup Inner)
Values ==
    Leaves \cup Dicts({"a", "b"}, Leaves \cup Middle \cup {PyList(<<PyDict([c |-> PyStr("")])>>)})

\* v in (None, "", {}, [])
is_empty(x) ==
    \/ x.t = "None"
    \/ x.t = "str" /\ x.s = ""
    \/ x.t = "list" /\ x.l = <<>>
    \/ x.t = "dict" /\ DOMAIN x.d = {}

\* a slip: the nested dict is tested before it is cleaned
nested_kept_slip(orig, clean) == DOMAIN orig.d # {}
\* v = clean_dict(v); if v: ...
nested_kept(orig, clean) == DOMAIN clean.d # {}

RECURSIVE clean_dict(_)
clean_dict(d) ==
    IF d.t # "dict" THEN d
    ELSE LET value(k) == IF d.d[k].t = "dict" THEN clean_dict(d.d[k]) ELSE d.d[k]
             keep(k) == IF d.d[k].t = "dict" THEN nested_kept(d.d[k], value(k))
                        ELSE ~is_empty(d.d[k])
         IN PyDict([k \in {x \in DOMAIN d.d : keep(x)} |-> value(k)])

\* handle_output: cleaned_results = [clean_dict(result) for result in
\* results if result is not None], for one result
handle_output ==
    /\ variant = "normalizer"
    /\ record # PyNone
    /\ cleaned = NoValue
    /\ cleaned' = clean_dict(record)
    /\ UNCHANGED <<variant, execVars, channel, client, wlog, ctx, calls, hist,
                   answers, batchVars, transport, step, target, info_output,
                   optical_output, version_output, rejected, status_info,
                   listVars, twoVars, date_str, date_out, record, recleaned, run>>

\* the normalizer applied to a record it has normalized
clean_again ==
    /\ variant = "normalizer"
    /\ cleaned # NoValue
    /\ recleaned = NoValue
    /\ recleaned' = clean_dict(cleaned)
    /\ UNCHANGED <<variant, execVars, channel, client, wlog, ctx, calls, hist,
                   answers, batchVars, transport, step, target, info_output,
                   optical_output, version_output, rejected, status_info,
                   listVars, twoVars, date_str, date_out, record, cleaned, run>>

(***************************************************************************)
(* Two HuaweiOLT objects in one process.  Each has its own attributes; the *)
(* logger is the one logging.getLogger('HuaweiOLT') returns to both.       *)
(***************************************************************************)
Sessions == {1, 2}

\* an object not yet constructed
NoSession ==
    [constructed |-> FALSE, verbose |-> FALSE, client |-> None, channel |-> None,
     current_frame |-> NoId, current_slot |-> NoId,
     current_interface |-> NoInterface]

\* the logger before any _setup_logger: no level, no handlers
NoLogger == [level |-> "NOTSET", handlers |-> 0]

\* _setup_logger of object i: the level follows self.verbose, the handlers
\* are replaced by the two new ones of this object
setup_logger(i, verbose) ==
    [level |-> IF verbose THEN "DEBUG" ELSE "INFO", handlers |-> i]

\* every call notes who ran and what the state was
Noted(i) ==
    /\ actor' = i
    /\ before' = [sessions |-> sessions, logger |-> logger]

\* the variables the two-object actions leave alone
oneVars ==
    <<variant, execVars, channel, client, wlog, ctx, calls, hist, answers,
      batchVars, transport, step, target, info_output, optical_output,
      version_output, rejected, status_info, listVars, normVars, run>>

\* HuaweiOLT(host, username, password, verbose=...)
session_init(i, verbose) ==
    /\ variant = "manager"
    /\ ~sessions[i].constructed
    /\ sessions' = [sessions EXCEPT ![i] =
                        [NoSession EXCEPT !.constructed = TRUE, !.verbose = verbose]]
    /\ logger' = setup_logger(i, verbose)
    /\ Noted(i)
    /\ UNCHANGED oneVars

\* olt.connect() of object i
session_connect(i) ==
    /\ variant = "manager"
    /\ sessions[i].constructed
    /\ \E ok \in BOOLEAN :
         sessions' = [sessions EXCEPT
                         ![i].client = "own",
                         ![i].channel = IF ok THEN "open" ELSE @]
    /\ Noted(i)
    /\ UNCHANGED <<logger, oneVars>>

\* olt.configure_interface(f, s) of object i, accepted or refused
session_configure_interface(i, f, s) ==
    /\ variant = "manager"
    /\ sessions[i].channel = "open"
    /\ \E a \in InterfaceReplies :
         sessions' =
             IF (sessions[i].current_frame = f /\ sessions[i].current_slot = s)
                \/ has_error(a)
             THEN sessions
             ELSE [sessions EXCEPT ![i].current_frame = f,
                                   ![i].current_slot = s,
                                   ![i].current_interface = <<"GPON", f, s>>]
    /\ Noted(i)
    /\ UNCHANGED <<logger, oneVars>>

\* olt.disconnect() of object i
session_disconnect(i) ==
    /\ variant = "manager"
    /\ sessions[i].client # None
    /\ sessions' = [sessions EXCEPT ![i].client = "closed"]
    /\ Noted(i)
    /\ UNCHANGED <<logger, oneVars>>

(***************************************************************************)
(* Specifications.                                                         *)
(***************************************************************************)
MgrInit ==
    /\ channel = None
    /\ client = IF variant \in Checkers THEN "own" ELSE None
    /\ wlog = <<>>
    /\ current_frame = NoId
    /\ current_slot = NoId
    /\ current_interface = NoInterface
    /\ calls = 0
    /\ hist = <<>>
    /\ answers = <<>>
    /\ ont_list = <<>>
    /\ idx = 0
    /\ results = <<>>
    /\ bpc = "idle"
    /\ cycle = NoCycle
    /\ bwrote = FALSE
    /\ berr = FALSE
    /\ pauses = 0
    /\ transport = "none"
    /\ step = 0
    /\ target = NoTarget
    /\ info_output = <<>>
    /\ optical_output = <<>>
    /\ version_output = <<>>
    /\ rejected = 0
    /\ status_info = NoResult
    /\ summary = <<>>
    /\ onts = <<>>
    /\ failed = FALSE
    /\ printed = "none"
    /\ date_str \in IF variant = "normalizer" THEN Dates ELSE {""}
    /\ date_out = NoDate
    /\ record \in IF variant = "normalizer" THEN Values ELSE {PyNone}
    /\ cleaned = NoValue
    /\ recleaned = NoValue
    /\ sessions = [i \in Sessions |-> NoSession]
    /\ logger = NoLogger
    /\ actor = 0
    /\ before = [sessions |-> sessions, logger |-> logger]
    /\ run = "start"

\* text of an earlier command that may still wait on the channel
Stale == {<<>>, <<"earlier">>}

ExecInit ==
    /\ pc = "start"
    /\ rx \in IF variant = "manager" THEN {<<>>} ELSE Stale
    /\ chunk = <<>>
    /\ output = <<>>
    /\ keys = 0
    /\ delivered = <<>>
    /\ emitted = 0
    /\ flood = NoFlood
    /\ clock = 0

Init ==
    /\ variant \in {"ports", "status", "list"}
    /\ ExecInit
    /\ MgrInit

Driver ==
    \/ poll_send
    \/ ports_execute_command
    \/ status_execute_command
    \/ poll_idle
    \/ poll_recheck
    \/ clear_buffer
    \/ list_execute_command

Next ==
    \/ DeviceEmit
    \/ Driver

Spec == Init /\ [][Next]_vars

InitMgr ==
    /\ variant = "manager"
    /\ ExecInit
    /\ MgrInit

\* the calls a caller makes on the manager of src/, in any order
NextMgr ==
    \/ connect /\ UNCHANGED run
    \/ ChannelDrop /\ UNCHANGED run
    \/ (\E f \in Frames, s \in Slots : configure_interface(f, s)) /\ UNCHANGED run
    \/ reset_ont(1, 1) /\ UNCHANGED run
    \/ disconnect /\ UNCHANGED run

SpecMgr == InitMgr /\ [][NextMgr]_vars

\* the calls a caller makes on a manager, the batch reset being called while
\* no interface is configured
NextGuard ==
    \/ connect /\ UNCHANGED run
    \/ ChannelDrop /\ UNCHANGED run
    \/ (\E f \in Frames, s \in Slots : configure_interface(f, s)) /\ UNCHANGED run
    \/ reset_ont(1, 1) /\ UNCHANGED run
    \/ no_interface /\ reset_multiple_onts /\ UNCHANGED run
    \/ disconnect /\ UNCHANGED run

SpecGuard == InitMgr /\ [][NextGuard]_vars



InitRun ==
    /\ variant \in {"manager", "status_checker"} \cup Checkers
    /\ ExecInit
    /\ MgrInit

NextRun ==
    \/ main_connect
    \/ main_configure
    \/ main_bad_arguments
    \/ main_reset
    \/ main_reset_step
    \/ main_verify
    \/ main_disconnect
    \/ main_channel_drop
    \/ checker_connect
    \/ get_slots_and_ports
    \/ check_port_onts
    \/ check_command
    \/ check_single_ont_status
    \/ close
    \/ status_checker_connect
    \/ status_checker_verify

SpecRun == InitRun /\ [][NextRun]_vars

\* parse_date and clean_dict, applied to every value of Dates and Values
InitNorm ==
    /\ variant = "normalizer"
    /\ ExecInit
    /\ MgrInit

NextNorm ==
    \/ call_parse_date
    \/ handle_output
    \/ clean_again

SpecNorm == InitNorm /\ [][NextNorm]_vars

\* two objects constructed and used in any interleaving
NextTwo ==
    \/ \E i \in Sessions, verbose \in BOOLEAN : session_init(i, verbose)
    \/ \E i \in Sessions : session_connect(i)
    \/ \E i \in Sessions, f \in Frames, s \in Slots : session_configure_interface(i, f, s)
    \/ \E i \in Sessions : session_disconnect(i)

SpecTwo == InitMgr /\ [][NextTwo]_vars

(***************************************************************************)
(* An endless device: it repeats one text whenever the channel is empty.   *)
(* The program runs on (weak fairness of its steps) and time passes.       *)
(***************************************************************************)
InitLive ==
    /\ variant \in {"ports", "status", "list"}
    /\ pc = "start"
    /\ rx \in Stale
    /\ chunk = <<>>
    /\ output = <<>>
    /\ keys = 0
    /\ delivered = <<>>
    /\ emitted = 0
    /\ flood \in FloodPieces
    /\ clock = 0
    /\ MgrInit

NextLive ==
    \/ DeviceFlood
    \/ Tick
    \/ Driver

SpecLive == InitLive /\ [][NextLive]_vars /\ WF_vars(Driver) /\ WF_vars(Tick)

(***************************************************************************)
(* Properties of the command cycle.                                        *)
(***************************************************************************)
\* the prompts the running variant recognises
Prompts ==
    IF variant = "ports" THEN PortsPrompts
    ELSE IF variant = "status" THEN StatusPrompts
    ELSE ListPrompts

\* the text ends in a terminal prompt suffix: '#', '>' or ')#'
EndsInPrompt(c) == c # <<>> /\ c[Len(c)] \in {"#", ">"}

\* a terminal prompt suffix occurs in the text
HoldsPrompt(c) == \E i \in 1..Len(c) : c[i] \in {"#", ">"}

\* C1: in each of the three variants, a received chunk that ends in a
\* terminal prompt suffix ('#', '>', ')#') and holds no pagination marker
\* ends the command cycle as completed at that chunk (the list variant's
\* completion is its drain-and-break).
C1_PromptChunkCompletes ==
    (pc # "start" /\ EndsInPrompt(chunk) /\ ~SawMarker(chunk))
        => pc \in {"drain", "ret_prompt"}

\* C2: execute_command never returns as finished (by a prompt or by
\* silence, as opposed to the timeout) when it has answered a pagination
\* marker and no terminal prompt occurs in the text it received.
C2_NoCompletionOnMarkerOnly ==
    (pc \in {"ret_prompt", "ret_silence"} /\ keys > 0) => HoldsPrompt(output)

\* C3: when the cycle has returned, the number of continuation keystrokes
\* sent equals the number of pagination markers in the text received,
\* however that text was split into chunks.
C3_OneKeystrokePerMarker ==
    pc \in Returned => keys = Count(Marker, output)

\* C4: the number of continuation keystrokes sent in one command cycle never
\* exceeds the cap, for every device, also one that answers every keystroke
\* with another pagination marker.
C4_KeystrokesCapped == keys <= PaginationCap

\* C5: every command cycle eventually returns, for every device behaviour.
C5_CycleReturns == <>(pc \in Returned)

\* C6: execute_command returns only if a terminal prompt occurs in the text
\* it received or the overall timeout elapsed; silence alone is no reason.
C6_ReturnOnlyOnPromptOrTimeout ==
    pc \in Returned => (pc = "ret_timeout" \/ HoldsPrompt(output))

\* C7: the text of a command cycle is the concatenation, in arrival order,
\* of every chunk read from the channel since the command was sent, also
\* when the cycle ended by timeout.
C7_OutputIsEveryChunk == pc # "start" => output = delivered

\* C7 witness: the list cycle timed out without a prompt and still holds the
\* two chunks it read.
C7_Witness ==
    /\ variant = "list"
    /\ pc = "ret_timeout"
    /\ output = <<"a", ">">>
    /\ chunk = <<">">>

(***************************************************************************)
(* Properties of the HuaweiOLT session.                                    *)
(***************************************************************************)
\* the last two calls were configure_interface with identical (f, s)
TwiceSame ==
    /\ Len(hist) = 2
    /\ hist[1].op = "configure_interface"
    /\ hist[2].op = "configure_interface"
    /\ hist[1].a = hist[2].a
    /\ hist[1].b = hist[2].b

\* C8 as claimed: two consecutive configure_interface calls with identical
\* (f, s) write the selection command at most once, whatever the device
\* answered to the first.
C8_AtMostOnce == TwiceSame => ~(hist[1].wrote /\ hist[2].wrote)

\* C8 amended: when the first of two consecutive configure_interface calls
\* with identical (f, s) reported success, the second writes nothing.
C8_AtMostOnceAfterSuccess ==
    (TwiceSame /\ hist[1].ret) => (~hist[2].wrote /\ hist[2].ret)

\* C8 witness: the first call wrote the command and was accepted, the second
\* identical call returned True without writing.
C8_Witness ==
    /\ TwiceSame
    /\ hist[1].wrote /\ hist[1].ret
    /\ ~hist[2].wrote /\ hist[2].ret
    /\ current_interface = <<"GPON", hist[2].a, hist[2].b>>

\* C9: a configure_interface call whose answer holds an error marker, or
\* whose send raised, returns False and leaves current_frame, current_slot
\* and current_interface as they were.
C9_FailureLeavesContext ==
    [][(/\ calls' = calls + 1
        /\ hist'[Len(hist')].op = "configure_interface"
        /\ hist'[Len(hist')].err)
       => (/\ hist'[Len(hist')].ret = FALSE
           /\ UNCHANGED <<current_frame, current_slot, current_interface>>)]_vars

\* C9 witness: an interface is tracked and the last call, for another slot,
\* was written and rejected with an error marker.
C9_Witness ==
    /\ hist # <<>>
    /\ hist[Len(hist)].op = "configure_interface"
    /\ hist[Len(hist)].wrote /\ hist[Len(hist)].err /\ ~hist[Len(hist)].ret
    /\ current_interface # NoInterface
    /\ current_slot # hist[Len(hist)].b

\* 'enable' and then 'config' were written to the channel
EnteredGlobalConfig ==
    \E i, j \in 1..Len(wlog) :
        i < j /\ wlog[i] = <<"enable">> /\ wlog[j] = <<"config">>

\* C10: the tracked context is an interface context only if 'enable' and
\* then 'config' were written to the session's channel.
C10_InterfaceOnlyAfterGlobalConfig ==
    current_interface # NoInterface => EnteredGlobalConfig

\* the answer has the shape of the prompt the mode-entry command leads to:
\* the privileged prompt after 'enable' (command 1), the global
\* configuration prompt after 'config' (command 2)
ExpectedShape(i, a) ==
    IF i = 1 THEN a # <<>> /\ a[Len(a)] = "#" /\ ~In(<<"(config">>, a)
    ELSE In(<<"(config", ")", "#">>, a)

\* the last call was connect, and the answer to its i-th mode-entry command
\* did not have the expected shape
ModeEntryRefused(i) ==
    /\ hist # <<>>
    /\ hist[Len(hist)].op = "connect"
    /\ Len(answers) >= i
    /\ ~ExpectedShape(i, answers[i])

\* C11: when the answer to a mode-entry command ('enable', 'config') does not
\* have the expected next-prompt shape, connect does not report the session
\* as connected, and after a refused 'enable' no further command is written.
C11_ModeEntryChecked ==
    /\ (ModeEntryRefused(1) \/ ModeEntryRefused(2)) => ~hist[Len(hist)].ret
    /\ ModeEntryRefused(1) => wlog = << <<"enable">> >>

(***************************************************************************)
(* Properties of the batch reset.                                          *)
(***************************************************************************)
\* reset_multiple_onts has just returned
BatchReturned == hist # <<>> /\ last.op = "reset_multiple_onts"

\* C12: the batch handles its work list in input order and a failing item
\* never aborts it: when reset_multiple_onts returns with an interface
\* configured, the loop body has finished for every item of the list, also
\* when an item lacks a key or a channel operation raised.
C12_FailingItemDoesNotAbort ==
    (BatchReturned /\ current_interface # NoInterface) => idx = Len(ont_list)

\* C13: the result of reset_multiple_onts holds exactly one entry per input
\* item: as many entries as the list has items.
C13_OneEntryPerItem ==
    BatchReturned => Cardinality(DOMAIN results) = Len(ont_list)

\* C14: a channel operation that raises during the batch reset is fatal and
\* reaches the caller: a batch in which a send raised does not return
\* normally.
C14_ChannelFailurePropagates ==
    (BatchReturned /\ last.err) => ~last.ret

\* C18: in a reset command cycle the driver writes the affirmative reply
\* exactly once if the captured text asks for confirmation (and the channel
\* lasts), then goes on capturing and classifies all of the captured text;
\* it never writes the reply when no confirmation text was captured.
C18_ConfirmOnceIfAsked ==
    cycle # NoCycle =>
        /\ (asks_confirmation(cycle.out) /\ ~cycle.lost) =>
               /\ Count(<< <<"y">> >>, cycle.sent) = 1
               /\ cycle.ret = ~reset_failed(cycle.out \o cycle.more)
        /\ (~asks_confirmation(cycle.out) \/ cycle.lost) =>
               Count(<< <<"y">> >>, cycle.sent) = 0

\* C18 witness: the captured text asked for confirmation, 'y' was written
\* after the reset command, and the text captured after it held an error
\* marker, so the reset is reported as failed.
C18_Witness ==
    /\ cycle # NoCycle
    /\ asks_confirmation(cycle.out)
    /\ cycle.sent = << <<"ont reset", 1, 1>>, <<"y">> >>
    /\ cycle.more = <<"error", "#">>
    /\ ~cycle.ret
    /\ wlog # <<>> /\ wlog[Len(wlog)] = <<"y">>
    /\ last.op = "reset_ont" /\ ~last.ret

(***************************************************************************)
(* Properties of shutdown.                                                 *)
(***************************************************************************)
\* C16: after the caller's disconnect the driver writes nothing more: the
\* call that follows a disconnect, unless it is a new connect, writes no
\* command to the channel.
C16_NoWriteAfterShutdown ==
    (Len(hist) = 2 /\ hist[1].op = "disconnect" /\ hist[2].op # "connect")
        => ~hist[2].wrote

(***************************************************************************)
(* Properties of the status query.                                         *)
(***************************************************************************)
\* C15: when the device rejects the interface-selection command for a
\* target, check_single_ont_status abandons the attempt: the rejected
\* 'interface gpon' is the last command it writes for that target.
C15_RejectedSelectionAbandons ==
    (variant = "status" /\ rejected # 0) => Len(wlog) = rejected

\* the NotFound variant for the target of the query
NotFound ==
    [frame |-> target[1], slot |-> target[2], port |-> target[3],
     ont_id |-> target[4], run_state |-> "NOT_EXISTS"]

\* C19: when the info text holds 'The ONT does not exist',
\* check_single_ont_status returns the NotFound variant -- the target's
\* identifiers and run_state NOT_EXISTS, nothing else -- whatever else the
\* info, optical and version texts hold.
C19_NotFoundVariant ==
    (status_info # NoResult /\ In(<<NotExists>>, info_output))
        => status_info = NotFound

\* C19 witness: the marker came with a run state in the info text and with
\* optical and version data a pattern matches, and NotFound was returned.
C19_Witness ==
    /\ status_info # NoResult
    /\ status_info = NotFound
    /\ In(<<NotExists>>, info_output)
    /\ Field("Run state", Word, info_output) = "online"
    /\ DOMAIN optical_data(optical_output) = {"rx", "tx"}
    /\ DOMAIN version_data(version_output) = {"ont_version"}
    /\ run = "finally"

\* a populated numeric field: a number followed by its unit
Populated(unit) == {n \o unit : n \in {"1200", "-14.2"}}

\* C20: in what check_single_ont_status returns every numeric field is
\* either empty or a number followed by its unit: a lone dash in the text
\* gives the empty value, never a dash, a zero or a dash with a unit.
C20_PlaceholderNormalised ==
    (status_info # NoResult /\ ~In(<<NotExists>>, info_output)) =>
        /\ status_info.distance \in {""} \cup Populated("m")
        /\ \A k \in DOMAIN status_info.optical :
               status_info.optical[k] \in {""} \cup Populated(" dBm")

(***************************************************************************)
(* Properties of a run of main().                                          *)
(***************************************************************************)
\* C17: the session is closed on every exit path of a run: when main() has
\* been left, the connection it opened is not open any more, in each of
\* the five entry points.
C17_ClosedOnEveryExit ==
    run = "exited" => transport # "open"

(***************************************************************************)
(* Properties of the ONT list.                                             *)
(***************************************************************************)
\* check_port_onts has returned without a caught exception
ListReturned == variant = "list" /\ printed \in {"[]", "list"} /\ ~failed

\* the ONT ids of the rows each pattern parsed, and of the result
StatusIds == DOMAIN status_dict(section_lines(summary, "none", "status"))
DetailsIds ==
    LET ls == section_lines(summary, "none", "details")
    IN {ls[i][1] : i \in {j \in 1..Len(ls) : details_match(ls[j])}}
ResultIds == {onts[i].ont_id : i \in 1..Len(onts)}

\* C21: check_port_onts correlates status rows and details rows by ONT id
\* and drops no row: the ids in the result are the ids of the parsed status
\* rows together with those of the parsed details rows, and a details row
\* without a status row gets the default status.
C21_NoRowDropped ==
    ListReturned =>
        /\ ResultIds = StatusIds \cup DetailsIds
        /\ \A i \in 1..Len(onts) :
               onts[i].ont_id \notin StatusIds => onts[i].status = unknown_status

\* one status row and one details row that share ONT id 3
Example22 ==
    <<StatusHeader,
      <<"3", "online", "2024-01-01 10:00:00", "2024-01-02 11:00:00", "power-fail">>,
      DetailsHeader,
      <<"3", "ABCD1234", "HG8245", "120", "-15.1", "2.3", "desc">> >>

\* C22: for the capture with one status row and one details row of ONT 3,
\* check_port_onts yields exactly one record: ont_id 3, serial_number
\* ABCD1234, distance '120m', rx '-15.1 dBm', tx '2.3 dBm', run_state
\* online and last_down_cause power-fail.
C22_ExampleRecord ==
    (ListReturned /\ summary = Example22) =>
        /\ Len(onts) = 1
        /\ onts[1].ont_id = "3"
        /\ onts[1].serial_number = "ABCD1234"
        /\ onts[1].distance = "120m"
        /\ onts[1].optical.rx = "-15.1 dBm"
        /\ onts[1].optical.tx = "2.3 dBm"
        /\ onts[1].status.run_state = "online"
        /\ onts[1].status.last_down_cause = "power-fail"

\* C22 witness: the example capture was read and its one record printed.
C22_Witness ==
    /\ ListReturned
    /\ summary = Example22
    /\ Len(onts) = 1
    /\ printed = "list"
    /\ wlog[Len(wlog)] = <<"display ont info summary", 0, 1, 1>>

\* C23: a field whose pattern matched nothing is absent from the record and
\* never given a sentinel: an ONT whose info text has no 'Run state' line,
\* and a details row without a status row, carry no run_state.
C23_UnmatchedFieldsAbsent ==
    /\ ("frame" \in DOMAIN status_info
           /\ ~In(<<NotExists>>, info_output)
           /\ Field("Run state", Word, info_output) = NoMatch)
        => "run_state" \notin DOMAIN status_info
    /\ ListReturned =>
           \A i \in 1..Len(onts) :
               onts[i].ont_id \notin StatusIds
                   => "run_state" \notin DOMAIN onts[i].status

\* C24: an empty inventory gives the empty list and not an error shape, and
\* a failure while the output is processed does not print the empty list:
\* the two can be told apart.
C24_EmptyIsNotFailure ==
    variant = "list" =>
        /\ (ListReturned /\ onts = <<>>) => printed = "[]"
        /\ failed => printed # "[]"

(***************************************************************************)
(* Properties of parse_date and of the result normalizer.                  *)
(***************************************************************************)
\* the positions of the listed formats that parse the value
Parsing(v) == {i \in 1..Len(formats) : strptime(strip(v), formats[i]) # NoMatch}

\* C25: parse_date returns the empty value for an empty value or a lone
\* dash; otherwise the ISO rendering by the first listed format that
\* parses, or the value unchanged if no format parses.
C25_FirstFormatWins ==
    date_out # NoDate =>
        IF date_str \in {"", "-"} THEN date_out = ""
        ELSE IF Parsing(date_str) = {} THEN date_out = date_str
        ELSE \E i \in Parsing(date_str) :
                /\ \A j \in Parsing(date_str) : i <= j
                /\ date_out = strptime(strip(date_str), formats[i])

\* C25 witness: a value two of the formats parse ('%S%z' and '%S+%f') was
\* rendered by the one listed first.
C25_Witness ==
    /\ date_str = "2024-01-01 10:00:00+0800"
    /\ Cardinality(Parsing(date_str)) = 2
    /\ date_out = "2024-01-01T10:00:00+08:00"

\* C26: clean_dict is idempotent: clean_dict(clean_dict(d)) = clean_dict(d).
C26_Idempotent ==
    recleaned # NoValue => recleaned = cleaned

\* C26 witness: the first pass removed a nested dict that became empty only
\* by its own cleaning, and the second pass was applied to the result.
C26_Witness ==
    /\ recleaned # NoValue
    /\ record.t = "dict"
    /\ \E k \in DOMAIN record.d :
           /\ record.d[k].t = "dict"
           /\ DOMAIN record.d[k].d # {}
           /\ k \notin DOMAIN cleaned.d
    /\ DOMAIN cleaned.d # {}

\* an empty or null value is reachable inside x: in a dict or in a list
RECURSIVE holds_empty(_)
holds_empty(x) ==
    IF x.t = "dict"
    THEN \E k \in DOMAIN x.d : is_empty(x.d[k]) \/ holds_empty(x.d[k])
    ELSE IF x.t = "list"
    THEN \E i \in 1..Len(x.l) : is_empty(x.l[i]) \/ holds_empty(x.l[i])
    ELSE FALSE

\* C27: after clean_dict the record holds no None, empty string, empty dict
\* or empty list at any depth, lists included, and 0 and False are kept.
C27_NoEmptyField ==
    (cleaned # NoValue /\ record.t = "dict") =>
        /\ ~holds_empty(cleaned)
        /\ \A k \in DOMAIN record.d :
               record.d[k] \in {PyInt("0"), PyBool("False")}
                   => (k \in DOMAIN cleaned.d /\ cleaned.d[k] = record.d[k])

(***************************************************************************)
(* Properties of two sessions in one process.                              *)
(***************************************************************************)
\* C28: independent sessions share no mutable state: a constructor or
\* method of one HuaweiOLT object leaves the attributes of the other object
\* (mode context, channel) and the configuration of the logger the other
\* object uses as they were.
C28_NoSharedState ==
    \A j \in Sessions :
        (actor \notin {0, j} /\ before.sessions[j].constructed) =>
            /\ sessions[j] = before.sessions[j]
            /\ logger = before.logger

(***************************************************************************)
(* Properties of the order of commands.                                    *)
(***************************************************************************)
\* C29: command cycles on a channel are strictly sequential: the text a
\* command cycle returns holds nothing the device sent in answer to an
\* earlier command.
C29_NoEarlierText ==
    pc \in Returned => ~In(<<"earlier">>, output)

\* C30: mode entry precedes every command cycle: whatever is written to a
\* channel after it was opened starts with 'enable' and then 'config', so
\* no query or reset command is written before them.
C30_ModeEntryFirst ==
    wlog # <<>> =>
        /\ wlog[1] = <<"enable">>
        /\ Len(wlog) >= 2 => wlog[2] = <<"config">>

(***************************************************************************)
(* Properties of the interface entries and exits of the checkers.          *)
(***************************************************************************)
\* the commands written for one interface
PerInterface ==
    {"display ont optical-info", "display ont version", "display port state all"}

\* the commands cmds, read from inside or from outside an interface, enter
\* only from outside, leave and query only from inside and, when `ended`,
\* finish outside
RECURSIVE Balanced(_, _, _)
Balanced(cmds, inside, ended) ==
    IF cmds = <<>> THEN ended => ~inside
    ELSE LET kind == Head(cmds)[1] IN
         IF kind = "interface gpon"
         THEN ~inside /\ Balanced(Tail(cmds), TRUE, ended)
         ELSE IF kind = "quit"
         THEN inside /\ Balanced(Tail(cmds), FALSE, ended)
         ELSE IF kind \in PerInterface
         THEN inside /\ Balanced(Tail(cmds), inside, ended)
         ELSE Balanced(Tail(cmds), inside, ended)

device_step(mode, cmd, refused) ==
    LET kind == cmd[1] IN
    IF kind = "enable" THEN (IF mode = "user" THEN "enable" ELSE mode)
    ELSE IF kind = "config" THEN (IF mode = "enable" THEN "config" ELSE mode)
    ELSE IF kind = "interface gpon"
    THEN (IF mode = "config" /\ ~refused THEN "interface" ELSE mode)
    ELSE IF kind = "quit"
    THEN (IF mode = "interface" THEN "config"
          ELSE IF mode = "config" THEN "enable"
          ELSE "user")
    ELSE mode

\* the mode after the first n commands written
RECURSIVE device_mode(_)
device_mode(n) ==
    IF n = 0 THEN "user"
    ELSE device_step(device_mode(n - 1), wlog[n], n = rejected)

\* C32: on return from check_single_ont_status the device is in the mode it
\* was in on entry, global configuration, whatever the device answered --
\* also when it rejected an 'interface gpon' command.
C32_ModeRestored ==
    (variant = "status" /\ status_info # NoResult) =>
        device_mode(Len(wlog)) = "config"

(***************************************************************************)
(* Properties of the pause between the resets of a batch.                  *)
(***************************************************************************)
\* the reset commands among cmds
Resets(cmds) == SelectSeq(cmds, LAMBDA c : c[1] = "ont reset")

ContextConsistent ==
    \/ /\ current_frame = NoId
       /\ current_slot = NoId
       /\ current_interface = NoInterface
    \/ /\ current_frame # NoId
       /\ current_slot # NoId
       /\ current_interface = <<"GPON", current_frame, current_slot>>

\* the last call was configure_interface and it returned True
ConfigureSucceeded ==
    /\ hist # <<>>
    /\ hist[Len(hist)].op = "configure_interface"
    /\ hist[Len(hist)].ret

\* C34: in every reachable state current_frame, current_slot and
\* current_interface are all unset or current_interface is
\* 'GPON <current_frame>/<current_slot>'; when configure_interface(f, s)
\* has returned success the context is (f, s); and a step that changes one
\* of the three fields is a configure_interface call.
C34_ContextConsistent ==
    /\ [](ContextConsistent)
    /\ [](ConfigureSucceeded =>
             /\ current_frame = hist[Len(hist)].a
             /\ current_slot = hist[Len(hist)].b)
    /\ [][<<current_frame, current_slot, current_interface>>' #
             <<current_frame, current_slot, current_interface>>
          => (/\ calls' = calls + 1
              /\ hist'[Len(hist')].op = "configure_interface")]_vars

\* the context was set by a successful call that wrote the selection
\* command, and a later disconnect left it in place
C34_Witness ==
    /\ Len(hist) = 2
    /\ hist[1].op = "configure_interface" /\ hist[1].ret /\ hist[1].wrote
    /\ hist[2].op = "disconnect"
    /\ calls >= 3
    /\ current_slot = hist[1].b
    /\ current_interface = <<"GPON", current_frame, current_slot>>

(***************************************************************************)
(* Properties of the reset verdict and of the reset without a context.     *)
(***************************************************************************)
\* C35: a reset is reported as successful only if, during its command
\* cycle, the captured text asked for confirmation and the driver wrote the
\* affirmative reply; a cycle whose captured text never held the
\* confirmation prompt is not reported as success.
C35_SuccessOnlyAfterConfirmation ==
    (cycle # NoCycle /\ cycle.ret) =>
        /\ asks_confirmation(cycle.out)
        /\ Count(<< <<"y">> >>, cycle.sent) = 1

\* C36: no reset command is written unless an interface context is
\* tracked: called while current_interface is unset, reset_ont returns
\* False and reset_multiple_onts returns an empty result, and neither
\* writes to the channel nor changes the tracked context.
C36_NoResetWithoutContext ==
    /\ [][Len(Resets(wlog')) > Len(Resets(wlog))
             => current_interface # NoInterface]_vars
    /\ [][(/\ current_interface = NoInterface
           /\ calls' = calls + 1
           /\ hist'[Len(hist')].op \in {"reset_ont", "reset_multiple_onts"})
          => (/\ wlog' = wlog
              /\ UNCHANGED <<current_frame, current_slot, current_interface>>
              /\ hist'[Len(hist')].op = "reset_ont" => ~hist'[Len(hist')].ret
              /\ hist'[Len(hist')].op = "reset_multiple_onts" =>
                     /\ hist'[Len(hist')].b = 0
                     /\ results' = EmptyDict)]_vars

\* on an open channel with no interface configured, reset_ont returned
\* False and then reset_multiple_onts, given three items, returned an empty
\* result; nothing but the mode entry was written
C36_Witness ==
    /\ Len(hist) = 2
    /\ hist[1].op = "reset_ont" /\ ~hist[1].ret /\ ~hist[1].wrote
    /\ hist[2].op = "reset_multiple_onts" /\ hist[2].a = 3 /\ hist[2].b = 0
    /\ current_interface = NoInterface
    /\ channel = "open"
    /\ Resets(wlog) = <<>>

=============================================================================
